---- MODULE Spec2Model ----
(***************************************************************************)
(* GravityPulse backend: a read-through wallet cache (Supabase table       *)
(* "wallets") in front of an RPC node and an explorer HTTP API, plus the   *)
(* stateless wallet handlers of the repository.                            *)
(*                                                                         *)
(* Strings that the code inspects character by character (addresses) are   *)
(* sequences of one-character strings.  Time is in whole seconds.          *)
(***************************************************************************)
EXTENDS Integers, Sequences, FiniteSets, TLC

VARIABLES
    now,        \* wall clock (Date.now()), seconds
    provider,   \* part_000:56-62  "rpc" when CHAINS_RPC_URL is set, else "null"
    store,      \* rows of the Supabase table "wallets"
    req,        \* the in-flight requests of the caching server, one per slot
    arrivals,   \* number of requests accepted so far (bounded)
    hist,       \* history: per key, the last write and the last clear-cache
    edits,      \* number of edits applied to probe (bounded)
    hreq,       \* the request of a stateless wallet handler
    harrivals,  \* number of stateless requests accepted so far (bounded)
    probe,      \* input string of the address validator under test
    verdict,    \* result of the last isValidAddress(probe), or "none"
    snapshot,   \* input of computeAchievements under test
    badges      \* result of computeAchievements(snapshot), or Null

vars == <<now, provider, store, req, arrivals, hist, hreq, harrivals, probe, verdict, edits,
          snapshot, badges>>

----------------------------------------------------------------------------
(* Bounds of the model *)

MaxNow == 90         \* the clock stops advancing here
MaxArrivals == 2      \* requests accepted by the caching server, one at a time
MaxRaceArrivals == 3  \* requests accepted by the caching server, two at a time
MaxFetchArrivals == 1 \* requests accepted while the upstreams misbehave
MaxHArrivals == 2     \* requests accepted by the stateless handlers in one run
MaxEdits == 1         \* edits applied to the validator's input
MaxBoardArrivals == 3 \* requests accepted in a run that ends at the leaderboard
MaxLiveArrivals == 1  \* requests accepted by the caching server while an upstream is silent
MaxWalletArrivals == 2 \* requests accepted by the caching server of part_001
MaxListArrivals == 1
MaxFrameArrivals == 3  \* requests accepted while the explorer returns long lists

(* Program constants *)

TTL == 60             \* seconds a row stays fresh
HexLen == 40          \* hex digits of an address
TxCap == 100          \* transactions kept in a snapshot
BoardLimit == 50      \* rows the leaderboard query asks for

\* null / undefined / not yet set
Null == [null |-> TRUE]

----------------------------------------------------------------------------
(* Characters and strings *)

Digits == {"0", "1", "2", "3", "4", "5", "6", "7", "8", "9"}
UpperAlpha == <<"A", "B", "C", "D", "E", "F", "G", "H", "I", "J", "K", "L", "M",
                "N", "O", "P", "Q", "R", "S", "T", "U", "V", "W", "X", "Y", "Z">>
LowerAlpha == <<"a", "b", "c", "d", "e", "f", "g", "h", "i", "j", "k", "l", "m",
                "n", "o", "p", "q", "r", "s", "t", "u", "v", "w", "x", "y", "z">>

Rep(c, n) == [i \in 1..n |-> c]

\* String.prototype.toLowerCase, one character
LowerChar(c) ==
    IF \E i \in 1..26 : UpperAlpha[i] = c
    THEN LowerAlpha[CHOOSE i \in 1..26 : UpperAlpha[i] = c]
    ELSE c

\* String.prototype.toLowerCase
toLowerCase(s) == [i \in 1..Len(s) |-> LowerChar(s[i])]

----------------------------------------------------------------------------
(* Regular expressions: a sequence of tokens between optional anchors.     *)
(* A token is a literal character, an optional group of literals or a      *)
(* character class repeated n times.                                       *)

Lit(c) == [t |-> "lit", c |-> c]
Opt(lits) == [t |-> "opt", lits |-> lits]
ClassN(set, n) == [t |-> "class", set |-> set, n |-> n]

\* the class [a-fA-F0-9]
HexClass == {"a", "b", "c", "d", "e", "f", "A", "B", "C", "D", "E", "F"} \cup Digits

\* /^0x[a-fA-F0-9]{40}$/
AddressRegex ==
    [anchorStart |-> TRUE,
     tokens |-> <<Lit("0"), Lit("x"), ClassN(HexClass, HexLen)>>,
     anchorEnd |-> TRUE]

\* does the regex match s with token k starting at index i of s
RECURSIVE MatchFrom(_, _, _, _)
MatchFrom(re, s, i, k) ==
    IF k > Len(re.tokens)
    THEN (~re.anchorEnd) \/ i = Len(s) + 1
    ELSE LET tok == re.tokens[k] IN
         IF tok.t = "lit"
         THEN /\ i <= Len(s)
              /\ s[i] = tok.c
              /\ MatchFrom(re, s, i + 1, k + 1)
         ELSE IF tok.t = "opt"
         THEN \/ /\ i + Len(tok.lits) - 1 <= Len(s)
                 /\ \A j \in 1..Len(tok.lits) : s[i + j - 1] = tok.lits[j]
                 /\ MatchFrom(re, s, i + Len(tok.lits), k + 1)
              \/ MatchFrom(re, s, i, k + 1)
         ELSE /\ i + tok.n - 1 <= Len(s)
              /\ \A j \in i..(i + tok.n - 1) : s[j] \in tok.set
              /\ MatchFrom(re, s, i + tok.n, k + 1)

\* RegExp.prototype.test
RegexTest(re, s) ==
    IF re.anchorStart
    THEN MatchFrom(re, s, 1, 1)
    ELSE \E i \in 1..(Len(s) + 1) : MatchFrom(re, s, i, 1)

\* the validator with the end anchor forgotten
isValidAddress_noEnd(addr) ==
    RegexTest([AddressRegex EXCEPT !.anchorEnd = FALSE], addr)

\* part_000:65-67
isValidAddress(addr) == RegexTest(AddressRegex, addr)

----------------------------------------------------------------------------
(* Requests and values of the caching server (part_000) *)

Slots == {1, 2}

AddrA   == <<"0", "x">> \o Rep("a", HexLen)
AddrAUp == <<"0", "x">> \o Rep("A", HexLen)
AddrB   == <<"0", "x">> \o Rep("b", HexLen)
AddrBad == <<"0", "x", "z">>

\* addresses a client sends
RequestAddrs == {AddrA, AddrAUp, AddrBad}

\* keys under which clients' rows live
Keys == {toLowerCase(a) : a \in {b \in RequestAddrs \cup {AddrB} : isValidAddress(b)}}

ClockSteps == {30}

\* how an awaited call of the store client can end: a result without error,
\* a result carrying an error, or a rejected promise
StoreOutcomes == {"ok", "error", "reject"}

\* provider.getBalance: a balance (display units) or an exception
RpcOutcomes == {[t |-> "ok", bal |-> 10000], [t |-> "throw"]}

\* axios.get of the txlist URL: a body whose result is an array (oldest
\* first), a body whose result is not an array, or a failure (error/timeout)
ExplorerOutcomes ==
    {[t |-> "array", result |-> <<1, 2, 3>>],
     [t |-> "nonarray"],
     [t |-> "throw"]}

\* the upstreams when both answer
RpcUp == {[t |-> "ok", bal |-> 10000], [t |-> "ok", bal |-> 5]}
ExplorerUp == {[t |-> "array", result |-> <<1, 2, 3>>]}

Put(p, k, v) == [x \in (DOMAIN p) \cup {k} |-> IF x = k THEN v ELSE p[x]]

\* (obj.field || 0) for a numeric field that may be missing
OrZero(p, k) == IF k \in DOMAIN p THEN p[k] ELSE 0

Reverse(s) == [i \in 1..Len(s) |-> s[Len(s) + 1 - i]]

\* slice(0, n): the first n elements
SliceLast_first(s, n) == IF Len(s) <= n THEN s ELSE SubSeq(s, 1, n)

\* Array.prototype.slice(-n)
SliceLast(s, n) == IF Len(s) <= n THEN s ELSE SubSeq(s, Len(s) - n + 1, Len(s))

----------------------------------------------------------------------------
(* part_000:69-100  computeAchievements *)

Catalog ==
    <<[id |-> "first_steps",   title |-> "First Steps",   desc |-> "Made first transaction"],
      [id |-> "diamond_hands", title |-> "Diamond Hands", desc |-> "Held tokens 30+ days"],
      [id |-> "active_trader", title |-> "Active Trader", desc |-> "100+ transactions"],
      [id |-> "whale_status",  title |-> "Whale Status",  desc |-> "Hold 10,000+ FOGO"],
      [id |-> "sniper",        title |-> "Sniper",        desc |-> "Early token adopter"],
      [id |-> "gravity_king",  title |-> "Gravity King",  desc |-> "Top 100 holder"]>>

\* the rules with "more than 100 transactions" for active_trader
EarnedIds_strict(walletData) ==
    (IF OrZero(walletData, "totalTransactions") >= 1 THEN {"first_steps"} ELSE {})
    \cup (IF OrZero(walletData, "holdDays") >= 30 THEN {"diamond_hands"} ELSE {})
    \cup (IF OrZero(walletData, "totalTransactions") > 100 THEN {"active_trader"} ELSE {})
    \cup (IF OrZero(walletData, "nativeBalance") >= 10000 THEN {"whale_status"} ELSE {})

\* the ids pushed onto the local list `achievements`
EarnedIds(walletData) ==
    (IF OrZero(walletData, "totalTransactions") >= 1 THEN {"first_steps"} ELSE {})
    \cup (IF OrZero(walletData, "holdDays") >= 30 THEN {"diamond_hands"} ELSE {})
    \cup (IF OrZero(walletData, "totalTransactions") >= 100 THEN {"active_trader"} ELSE {})
    \cup (IF OrZero(walletData, "nativeBalance") >= 10000 THEN {"whale_status"} ELSE {})

computeAchievements(walletData) ==
    [i \in 1..Len(Catalog) |->
        [id |-> Catalog[i].id, title |-> Catalog[i].title, desc |-> Catalog[i].desc,
         earned |-> Catalog[i].id \in EarnedIds(walletData)]]

----------------------------------------------------------------------------
(* part_000:102-125  cache helpers *)

RowsOf(key) == {w \in store : w.address = key}

\* getCachedWallet that looks the address up as given
getCachedWallet_asGiven(address, outcome) ==
    IF outcome = "ok" /\ RowsOf(address) # {}
    THEN CHOOSE w \in RowsOf(address) : TRUE
    ELSE Null

\* part_000:103-116.  With no row .single() reports PGRST116 and data is
\* null; with a store error data is null too; `data || null`.
getCachedWallet(address, outcome) ==
    IF outcome = "ok" /\ RowsOf(toLowerCase(address)) # {}
    THEN CHOOSE w \in RowsOf(toLowerCase(address)) : TRUE
    ELSE Null

\* the record keyed by the address as the client sent it
UpsertRecord_asGiven(address, payload) ==
    [address |-> address, payload |-> payload, updated_at |-> now]

\* part_000:119-123  the record upsertCachedWallet builds
UpsertRecord(address, payload) ==
    [address |-> toLowerCase(address), payload |-> payload, updated_at |-> now]

\* an upsert whose failure loses the row it was to replace
StoreUpsert_dropOnError(record, outcome) ==
    IF outcome = "ok"
    THEN (store \ {w \in store : w.address = record.address}) \cup {record}
    ELSE store \ {w \in store : w.address = record.address}

\* an insert that does not replace the row of the same address
StoreUpsert_insert(record, outcome) ==
    IF outcome = "ok" THEN store \cup {record} ELSE store

\* part_000:124  upsert with onConflict "address": the row of that address is
\* replaced; a failed call leaves the table as it was
StoreUpsert(record, outcome) ==
    IF outcome = "ok"
    THEN (store \ RowsOf(record.address)) \cup {record}
    ELSE store

\* a delete issued without its eq filter
StoreDelete_all(key, outcome) ==
    IF outcome = "ok" THEN {} ELSE store

\* a delete that matches rows by the address inside their payload
StoreDelete_byPayload(key, outcome) ==
    IF outcome = "ok" THEN store \ {w \in store : w.payload.address = key} ELSE store

\* part_000:310  delete().eq("address", key)
StoreDelete(key, outcome) ==
    IF outcome = "ok" THEN store \ RowsOf(key) ELSE store

\* part_000:204-206  ageSec < 60
isFresh(cache) == (now - cache.updated_at) < TTL

----------------------------------------------------------------------------
(* part_000:128-185  fetchOnChainData, one step per awaited call *)

\* part_000:129-137
NewResult(address) ==
    [address |-> address, nativeBalance |-> 0, tokens |-> <<>>, transactions |-> <<>>,
     totalTransactions |-> 0, usdValue |-> 0, lastUpdated |-> now]

\* part_000:141  with no provider the balance call is skipped
FetchEntryPc == IF provider = "rpc" THEN "rpc" ELSE "txlist"

\* the balance step without its try/catch
BalanceTry_nocatch(result, out) ==
    IF out.t = "ok"
    THEN [result |-> [result EXCEPT !.nativeBalance = out.bal], threw |-> FALSE]
    ELSE [result |-> result, threw |-> TRUE]

\* part_000:140-148  try { balance } catch { warn }
BalanceTry(result, out) ==
    IF out.t = "ok"
    THEN [result |-> [result EXCEPT !.nativeBalance = out.bal], threw |-> FALSE]
    ELSE [result |-> result, threw |-> FALSE]

\* the txlist step that resets the balance when the explorer fails
TxListTry_resets(result, out) ==
    IF out.t = "array"
    THEN [result |-> [result EXCEPT !.transactions = Reverse(SliceLast(out.result, TxCap)),
                                    !.totalTransactions = Len(out.result)],
          threw |-> FALSE]
    ELSE [result |-> [result EXCEPT !.nativeBalance = 0], threw |-> FALSE]

\* part_000:151-164  try { txlist } catch { warn }; axios failures become null
TxListTry(result, out) ==
    IF out.t = "array"
    THEN [result |-> [result EXCEPT !.transactions = Reverse(SliceLast(out.result, TxCap)),
                                    !.totalTransactions = Len(out.result)],
          threw |-> FALSE]
    ELSE [result |-> result, threw |-> FALSE]

\* part_000:181-184  derived fields, then return
Finish(result) == [result EXCEPT !.usdValue = result.nativeBalance * 0, !.lastUpdated = now]

----------------------------------------------------------------------------
(* Requests of the caching server *)

IdleReq ==
    [kind |-> "none", address |-> <<>>, pc |-> "idle",
     result |-> Null,        \* chainData
     record |-> Null,        \* the row handed to the store client
     resp |-> Null,          \* [status, body] once answered
     ops |-> {},             \* store and upstream calls made so far
     threw |-> "none",       \* the call whose exception reached the handler's catch
     readOutcome |-> "none", \* how the cache read ended
     readAt |-> -1,          \* clock at the cache read
     rowsAtRead |-> {},      \* rows stored for the lower-cased address at the read
     expect |-> Null,        \* hist[key].written at the read
     dirtyAtRead |-> FALSE,  \* hist[key].dirty at the read
     afterPurge |-> FALSE,   \* first overview accepted after a completed purge
     rpc |-> "none",         \* how the balance sub-fetch ended
     rpcBal |-> 0,           \* the balance the RPC node returned, if it did
     tx |-> "none",          \* how the transaction sub-fetch ended
     writeOutcome |-> "none", \* how the upsert ended
     deleteOutcome |-> "none", \* how the purge's delete ended
     explorerReply |-> Null,  \* what the explorer's txlist call gave
     rowsLeft |-> {}]         \* rows of the lower-cased address right after that delete

\* a request of a stateless handler
HIdle ==
    [kind |-> "none", method |-> "GET", address |-> <<>>, pc |-> "idle",
     resp |-> Null, ops |-> {}, nativeBalance |-> 0, txList |-> <<>>, queue |-> <<>>, tokens |-> <<>>,
     failed |-> {}]          \* the upstream calls that failed

FreeSlot(r) ==
    /\ req[r].pc \in {"idle", "done"}
    /\ \A q \in Slots : q < r => req[q].pc \notin {"idle", "done"}

Respond(rq, status, body) ==
    [rq EXCEPT !.pc = "done", !.resp = [status |-> status, body |-> body]]

\* part_000:225-228  catch (err) { res.status(500) }
Catch(rq, origin) ==
    [Respond(rq, 500, [error |-> "Internal server error"]) EXCEPT !.threw = origin]

InvalidAddress == [error |-> "Invalid address"]

\* enter fetchOnChainData: part_000:216 / 244 / 264
EnterFetch(rq) ==
    [rq EXCEPT !.result = NewResult(rq.address),
               !.pc = FetchEntryPc,
               !.rpc = IF provider = "rpc" THEN "none" ELSE "unconfigured"]

\* ghost fields written at the cache read
NoteRead(rq, o) ==
    LET k == toLowerCase(rq.address) IN
    [rq EXCEPT !.ops = @ \cup {"store.select"},
               !.readOutcome = o,
               !.readAt = now,
               !.rowsAtRead = RowsOf(k),
               !.expect = hist[k].written,
               !.dirtyAtRead = hist[k].dirty]

\* part_000:195-198
OverviewStart(r, addr) ==
    /\ FreeSlot(r)
    /\ arrivals' = arrivals + 1
    /\ LET base == [IdleReq EXCEPT !.kind = "overview", !.address = addr] IN
       IF ~isValidAddress(addr)
       THEN /\ req' = [req EXCEPT ![r] = Respond(base, 400, InvalidAddress)]
            /\ hist' = hist
       ELSE LET k == toLowerCase(addr) IN
            /\ req' = [req EXCEPT ![r] = [base EXCEPT !.pc = "getCachedWallet",
                                                      !.afterPurge = (hist[k].purge = "completed")]]
            /\ hist' = [hist EXCEPT ![k].purge = "none"]
    /\ UNCHANGED <<snapshot, badges, now, provider, store, hreq, harrivals, probe, verdict, edits>>

\* the body served from a fresh row with the badges left as stored
CachedBody_asStored(payload) == Put(payload, "cached", TRUE)

\* part_000:208-210  the body served from a fresh row
CachedBody(payload) ==
    LET p == Put(payload, "cached", TRUE) IN Put(p, "achievements", computeAchievements(p))

\* part_000:201-216
OverviewRead(r, outs) ==
    /\ req[r].kind = "overview"
    /\ req[r].pc = "getCachedWallet"
    /\ \E o \in outs :
         LET rq == NoteRead(req[r], o)
             cache == getCachedWallet(rq.address, o)
         IN req' = [req EXCEPT ![r] =
                IF o = "reject" THEN Catch(rq, "store.select")
                ELSE IF cache # Null /\ isFresh(cache)
                     THEN Respond(rq, 200, CachedBody(cache.payload))
                     ELSE EnterFetch(rq)]
    /\ UNCHANGED <<snapshot, badges, now, provider, store, arrivals, hist, hreq, harrivals, probe, verdict, edits>>

\* part_000:139-148
FetchRpc(r, outs) ==
    /\ req[r].pc = "rpc"
    /\ \E out \in outs :
         LET b == BalanceTry(req[r].result, out)
             rq == [req[r] EXCEPT !.ops = @ \cup {"rpc.getBalance"}, !.rpc = out.t,
                                  !.rpcBal = IF out.t = "ok" THEN out.bal ELSE 0,
                                  !.result = b.result]
         IN req' = [req EXCEPT ![r] =
                IF b.threw THEN Catch(rq, "fetchOnChainData")
                ELSE [rq EXCEPT !.pc = "txlist"]]
    /\ UNCHANGED <<snapshot, badges, now, provider, store, arrivals, hist, hreq, harrivals, probe, verdict, edits>>

\* part_000:150-164
FetchTxList(r, outs) ==
    /\ req[r].pc = "txlist"
    /\ \E out \in outs :
         LET b == TxListTry(req[r].result, out)
             rq == [req[r] EXCEPT !.ops = @ \cup {"explorer.txlist"}, !.tx = out.t,
                                  !.explorerReply = out,
                                  !.result = b.result]
         IN req' = [req EXCEPT ![r] =
                IF b.threw THEN Catch(rq, "fetchOnChainData")
                ELSE [rq EXCEPT !.pc = "tokenbalance"]]
    /\ UNCHANGED <<snapshot, badges, now, provider, store, arrivals, hist, hreq, harrivals, probe, verdict, edits>>

\* the snapshot handed to the upsert before the badges are computed
ChainData_noBadges(rq, result) == result

\* part_000:219  only the overview handler attaches achievements
ChainData(rq, result) ==
    IF rq.kind \in {"overview", "wallet"}
    THEN Put(result, "achievements", computeAchievements(result))
    ELSE result

\* part_000:166-185, then the caller up to its upsert: 219-222 / 245 / 265.
\* The token call changes nothing whether it succeeds or fails.
FetchTokenBalance(r) ==
    /\ req[r].pc = "tokenbalance"
    /\ \E out \in {"ok", "throw"} :
         LET chainData == ChainData(req[r], Finish(req[r].result)) IN
         req' = [req EXCEPT ![r] =
                [req[r] EXCEPT !.ops = @ \cup {"explorer.tokenbalance"},
                               !.result = chainData,
                               !.record = UpsertRecord(req[r].address, chainData),
                               !.pc = "upsert"]]
    /\ UNCHANGED <<snapshot, badges, now, provider, store, arrivals, hist, hreq, harrivals, probe, verdict, edits>>

\* the body sent after a refresh: part_000:224 / 246 / 266
FreshBody(rq) ==
    CASE rq.kind \in {"overview", "wallet"} -> Put(rq.result, "cached", FALSE)
      [] rq.kind = "txs"      -> [txs |-> rq.result.transactions]
      [] rq.kind = "tokens"   -> [tokens |-> rq.result.tokens]

\* part_000:124 and the caller's response: 222-224 / 245-246 / 265-266
UpsertReturn(r, outs) ==
    /\ req[r].pc = "upsert"
    /\ \E o \in outs :
         LET rq == [req[r] EXCEPT !.ops = @ \cup {"store.upsert"}, !.writeOutcome = o]
             k == toLowerCase(rq.address)
         IN /\ store' = StoreUpsert(rq.record, o)
            /\ hist' = IF o = "ok"
                       THEN [hist EXCEPT ![k].written = [address |-> rq.address,
                                                         payload |-> rq.result,
                                                         at |-> rq.record.updated_at],
                                         ![k].dirty = TRUE]
                       ELSE hist
            /\ req' = [req EXCEPT ![r] =
                   IF o = "reject" THEN Catch(rq, "store.upsert")
                   ELSE Respond(rq, 200, FreshBody(rq))]
    /\ UNCHANGED <<snapshot, badges, now, provider, arrivals, hreq, harrivals, probe, verdict, edits>>

\* part_000:232-235
TxsStart(r, addr) ==
    /\ FreeSlot(r)
    /\ arrivals' = arrivals + 1
    /\ LET base == [IdleReq EXCEPT !.kind = "txs", !.address = addr] IN
       req' = [req EXCEPT ![r] =
              IF ~isValidAddress(addr)
              THEN Respond(base, 400, InvalidAddress)
              ELSE [base EXCEPT !.pc = "getCachedWallet"]]
    /\ UNCHANGED <<snapshot, badges, now, provider, store, hist, hreq, harrivals, probe, verdict, edits>>

\* part_000:238-244  an array, even an empty one, is truthy
TxsRead(r, outs) ==
    /\ req[r].kind = "txs"
    /\ req[r].pc = "getCachedWallet"
    /\ \E o \in outs :
         LET rq == NoteRead(req[r], o)
             cache == getCachedWallet(rq.address, o)
         IN req' = [req EXCEPT ![r] =
                IF o = "reject" THEN Catch(rq, "store.select")
                ELSE IF cache # Null /\ "transactions" \in DOMAIN cache.payload
                     THEN Respond(rq, 200, [txs |-> cache.payload.transactions])
                     ELSE EnterFetch(rq)]
    /\ UNCHANGED <<snapshot, badges, now, provider, store, arrivals, hist, hreq, harrivals, probe, verdict, edits>>

\* part_000:254-257
TokensStart(r, addr) ==
    /\ FreeSlot(r)
    /\ arrivals' = arrivals + 1
    /\ LET base == [IdleReq EXCEPT !.kind = "tokens", !.address = addr] IN
       req' = [req EXCEPT ![r] =
              IF ~isValidAddress(addr)
              THEN Respond(base, 400, InvalidAddress)
              ELSE [base EXCEPT !.pc = "getCachedWallet"]]
    /\ UNCHANGED <<snapshot, badges, now, provider, store, hist, hreq, harrivals, probe, verdict, edits>>

\* part_000:259-264
TokensRead(r, outs) ==
    /\ req[r].kind = "tokens"
    /\ req[r].pc = "getCachedWallet"
    /\ \E o \in outs :
         LET rq == NoteRead(req[r], o)
             cache == getCachedWallet(rq.address, o)
         IN req' = [req EXCEPT ![r] =
                IF o = "reject" THEN Catch(rq, "store.select")
                ELSE IF cache # Null /\ "tokens" \in DOMAIN cache.payload
                     THEN Respond(rq, 200, [tokens |-> cache.payload.tokens])
                     ELSE EnterFetch(rq)]
    /\ UNCHANGED <<snapshot, badges, now, provider, store, arrivals, hist, hreq, harrivals, probe, verdict, edits>>

\* the purge that uses the address as the client sent it
ClearKey_asGiven(address) == address

\* part_000:310  the key the purge deletes
ClearKey(address) == toLowerCase(address)

\* part_000:305-308  a missing address is the empty string here
ClearCacheStart(r, addr) ==
    /\ FreeSlot(r)
    /\ arrivals' = arrivals + 1
    /\ LET base == [IdleReq EXCEPT !.kind = "clear-cache", !.address = addr] IN
       req' = [req EXCEPT ![r] =
              IF Len(addr) = 0 \/ ~isValidAddress(addr)
              THEN Respond(base, 400, InvalidAddress)
              ELSE [base EXCEPT !.pc = "delete"]]
    /\ UNCHANGED <<snapshot, badges, now, provider, store, hist, hreq, harrivals, probe, verdict, edits>>

\* part_000:310-313
ClearCacheDelete(r, outs) ==
    /\ req[r].pc = "delete"
    /\ \E o \in outs :
         LET k == toLowerCase(req[r].address)
             left == StoreDelete(ClearKey(req[r].address), o)
             rq == [req[r] EXCEPT !.ops = @ \cup {"store.delete"},
                                  !.deleteOutcome = o,
                                  !.rowsLeft = {w \in left : w.address = k}]
         IN /\ store' = left
            /\ hist' = IF o = "ok"
                       THEN [hist EXCEPT ![k] = [written |-> Null, purge |-> "completed",
                                                 dirty |-> FALSE,
                                                 removed |-> (RowsOf(k) # {})]]
                       ELSE hist
            /\ req' = [req EXCEPT ![r] =
                   CASE o = "reject" -> Catch(rq, "store.delete")
                     [] o = "error"  -> Respond(rq, 500, [error |-> "Failed to clear cache"])
                     [] o = "ok"     -> Respond(rq, 200, [ok |-> TRUE])]
    /\ UNCHANGED <<snapshot, badges, now, provider, arrivals, hreq, harrivals, probe, verdict, edits>>

\* time passes
Tick ==
    /\ \E d \in ClockSteps : now + d <= MaxNow /\ now' = now + d
    /\ UNCHANGED <<snapshot, badges, provider, store, req, arrivals, hist, hreq, harrivals, probe, verdict, edits>>

----------------------------------------------------------------------------
(* The caching server *)

Init ==
    /\ now = 0
    /\ provider = "rpc"
    /\ store = {}
    /\ req = [r \in Slots |-> IdleReq]
    /\ arrivals = 0
    /\ hist = [k \in Keys |-> [written |-> Null, purge |-> "none", dirty |-> FALSE,
                                removed |-> FALSE]]
    /\ hreq = HIdle
    /\ harrivals = 0
    /\ probe = <<>>
    /\ verdict = "none"
    /\ edits = 0
    /\ snapshot = Null
    /\ badges = Null

\* the server handling one request at a time, its upstreams answering
Next ==
    \/ \E a \in RequestAddrs : arrivals < MaxArrivals /\ OverviewStart(1, a)
    \/ OverviewRead(1, StoreOutcomes)
    \/ \E a \in RequestAddrs : arrivals < MaxArrivals /\ TxsStart(1, a)
    \/ TxsRead(1, StoreOutcomes)
    \/ \E a \in RequestAddrs : arrivals < MaxArrivals /\ TokensStart(1, a)
    \/ TokensRead(1, StoreOutcomes)
    \/ FetchRpc(1, RpcUp)
    \/ FetchTxList(1, ExplorerUp)
    \/ FetchTokenBalance(1)
    \/ UpsertReturn(1, StoreOutcomes)
    \/ \E a \in RequestAddrs \cup {<<>>} : arrivals < MaxArrivals /\ ClearCacheStart(1, a)
    \/ ClearCacheDelete(1, StoreOutcomes)
    \/ Tick

Spec == Init /\ [][Next]_vars

----------------------------------------------------------------------------
(* The caching server handling two requests at a time within one second    *)

RaceAddrs == {AddrA, AddrAUp}
RaceRpc == {[t |-> "ok", bal |-> 10000]}

NextRace ==
    \/ \E r \in Slots, a \in RaceAddrs : arrivals < MaxRaceArrivals /\ OverviewStart(r, a)
    \/ \E r \in Slots : OverviewRead(r, StoreOutcomes)
    \/ \E r \in Slots, a \in RaceAddrs : arrivals < MaxRaceArrivals /\ TxsStart(r, a)
    \/ \E r \in Slots : TxsRead(r, StoreOutcomes)
    \/ \E r \in Slots : FetchRpc(r, RaceRpc)
    \/ \E r \in Slots : FetchTxList(r, ExplorerUp)
    \/ \E r \in Slots : FetchTokenBalance(r)
    \/ \E r \in Slots : UpsertReturn(r, StoreOutcomes)
    \/ \E r \in Slots, a \in RaceAddrs : arrivals < MaxRaceArrivals /\ ClearCacheStart(r, a)
    \/ \E r \in Slots : ClearCacheDelete(r, StoreOutcomes)

SpecRace == Init /\ [][NextRace]_vars

----------------------------------------------------------------------------
(* The caching server with upstreams that fail, with and without provider  *)

InitFetch ==
    /\ now = 0
    /\ provider \in {"rpc", "null"}
    /\ store = {}
    /\ req = [r \in Slots |-> IdleReq]
    /\ arrivals = 0
    /\ hist = [k \in Keys |-> [written |-> Null, purge |-> "none", dirty |-> FALSE,
                                removed |-> FALSE]]
    /\ hreq = HIdle
    /\ harrivals = 0
    /\ probe = <<>>
    /\ verdict = "none"
    /\ edits = 0
    /\ snapshot = Null
    /\ badges = Null

NextFetch ==
    \/ \E a \in RequestAddrs : arrivals < MaxFetchArrivals /\ OverviewStart(1, a)
    \/ OverviewRead(1, StoreOutcomes)
    \/ \E a \in RequestAddrs : arrivals < MaxFetchArrivals /\ TxsStart(1, a)
    \/ TxsRead(1, StoreOutcomes)
    \/ FetchRpc(1, RpcOutcomes)
    \/ FetchTxList(1, ExplorerOutcomes)
    \/ FetchTokenBalance(1)
    \/ UpsertReturn(1, StoreOutcomes)
    \/ Tick

SpecFetch == InitFetch /\ [][NextFetch]_vars

----------------------------------------------------------------------------
(* The address validator on its own *)

AddrMixed == <<"0", "x">> \o [i \in 1..HexLen |-> IF i % 2 = 0 THEN "a" ELSE "F"]
AddrUpperPrefix == <<"0", "X">> \o Rep("a", HexLen)
NoPrefix == Rep("a", HexLen)

BaseProbes == {<<>>, AddrA, AddrAUp, AddrMixed, AddrUpperPrefix, NoPrefix}
EditChars == {"0", "9", "a", "f", "A", "F", "g", "G", "x", "X", " ", "\n"}
EditPositions == {1, 2, 3, HexLen + 2}

InitAddr ==
    /\ now = 0
    /\ provider = "rpc"
    /\ store = {}
    /\ req = [r \in Slots |-> IdleReq]
    /\ arrivals = 0
    /\ hist = [k \in Keys |-> [written |-> Null, purge |-> "none", dirty |-> FALSE,
                                removed |-> FALSE]]
    /\ hreq = HIdle
    /\ harrivals = 0
    /\ probe \in BaseProbes
    /\ verdict = "none"
    /\ edits = 0
    /\ snapshot = Null
    /\ badges = Null

Edited(s) ==
    /\ edits < MaxEdits
    /\ edits' = edits + 1
    /\ probe' = s
    /\ verdict' = "none"
    /\ UNCHANGED <<snapshot, badges, now, provider, store, req, arrivals, hist, hreq, harrivals>>

ReplaceChar == \E i \in EditPositions, c \in EditChars :
    i <= Len(probe) /\ Edited([probe EXCEPT ![i] = c])

AppendChar == \E c \in EditChars : Edited(Append(probe, c))

PrependChar == \E c \in EditChars : Edited(<<c>> \o probe)

DropLast == Len(probe) > 0 /\ Edited(SubSeq(probe, 1, Len(probe) - 1))

\* a caller applies the validator (part_000:198)
Validate ==
    /\ verdict = "none"
    /\ verdict' = IF isValidAddress(probe) THEN "true" ELSE "false"
    /\ UNCHANGED <<snapshot, badges, now, provider, store, req, arrivals, hist, hreq, harrivals, probe, edits>>

NextAddr == ReplaceChar \/ AppendChar \/ PrependChar \/ DropLast \/ Validate

SpecAddr == InitAddr /\ [][NextAddr]_vars

----------------------------------------------------------------------------
(* The stateless wallet handlers: src/api/wallet.js, src/server.js and the *)
(* second server and the explorer handler of part_001                      *)

\* ethers.isAddress: /^(0x)?[0-9a-fA-F]{40}$/.  A string that mixes upper-
\* and lower-case hex letters must also carry a valid checksum; no input
\* below mixes them.
EthersRegex ==
    [anchorStart |-> TRUE,
     tokens |-> <<Opt(<<"0", "x">>), ClassN(HexClass, HexLen)>>,
     anchorEnd |-> TRUE]

EthersIsAddress(addr) == RegexTest(EthersRegex, addr)

TokenC == <<"0", "x">> \o Rep("c", HexLen)

\* addresses sent to the stateless handlers; <<>> is a missing address
HandlerAddrs == {<<>>, AddrA, AddrBad, NoPrefix}

\* the explorer's transaction list (most recent first); token is the
\* toTokenInfo address of the transaction, <<>> when it has none
HandlerLists ==
    {<<>>,
     <<[timestamp |-> 9, token |-> <<>>], [timestamp |-> 7, token |-> TokenC]>>}

HandlerExplorer == {[t |-> "ok", list |-> l] : l \in HandlerLists} \cup {[t |-> "throw"]}

\* the four reads of one ERC-20 contract: a balance or an exception
ProbeOutcomes == {[t |-> "ok", bal |-> 0], [t |-> "ok", bal |-> 3], [t |-> "throw"]}

HFree == hreq.pc \in {"idle", "done"}

HStart(kind, addr, valid, pc, message) ==
    /\ HFree
    /\ harrivals < MaxHArrivals
    /\ harrivals' = harrivals + 1
    /\ LET base == [HIdle EXCEPT !.kind = kind, !.address = addr] IN
       hreq' = IF valid
               THEN [base EXCEPT !.pc = pc]
               ELSE Respond(base, 400, [error |-> message])
    /\ UNCHANGED <<snapshot, badges, now, provider, store, req, arrivals, hist, probe, verdict, edits>>

HStep(rq) ==
    /\ hreq' = rq
    /\ UNCHANGED <<snapshot, badges, now, provider, store, req, arrivals, hist, harrivals, probe, verdict, edits>>

HCatch(rq, call, message) ==
    Respond([rq EXCEPT !.failed = @ \cup {call}], 500, [error |-> message])

\* the token contracts named by the transactions: src/api/wallet.js:53-59
TokenAddresses(list) ==
    LET named == {list[i].token : i \in 1..Len(list)}
        valid == {a \in named : Len(a) > 0 /\ EthersIsAddress(a)}
    IN IF valid = {} THEN <<>> ELSE <<CHOOSE a \in valid : TRUE>>

\* src/api/wallet.js:80-89
ApiBody(rq) ==
    [address |-> rq.address, nativeBalance |-> rq.nativeBalance,
     totalTransactions |-> Len(rq.txList), tokens |-> rq.tokens,
     transactions |-> SubSeq(rq.txList, 1, IF Len(rq.txList) < 10 THEN Len(rq.txList) ELSE 10)]

\* src/api/wallet.js:19-28
ApiWalletStart(method, addr) ==
    /\ HFree
    /\ harrivals < MaxHArrivals
    /\ harrivals' = harrivals + 1
    /\ LET base == [HIdle EXCEPT !.kind = "api/wallet", !.method = method, !.address = addr] IN
       hreq' = IF method = "OPTIONS" THEN Respond(base, 200, [end |-> TRUE])
               ELSE IF Len(addr) = 0 \/ ~EthersIsAddress(addr)
                    THEN Respond(base, 400, [error |-> "Invalid wallet address"])
                    ELSE [base EXCEPT !.pc = "api.getBalance"]
    /\ UNCHANGED <<snapshot, badges, now, provider, store, req, arrivals, hist, probe, verdict, edits>>

\* src/api/wallet.js:31-32 and the catch at 90-93
ApiWalletBalance(outs) ==
    /\ hreq.pc = "api.getBalance"
    /\ \E out \in outs :
         LET rq == [hreq EXCEPT !.ops = @ \cup {"rpc.getBalance"}] IN
         HStep(IF out.t = "ok"
               THEN [rq EXCEPT !.nativeBalance = out.bal, !.pc = "api.explorer"]
               ELSE HCatch(rq, "rpc.getBalance", "Error fetching wallet data"))

\* src/api/wallet.js:35-61: the list, then the token contracts to probe
ApiWalletExplorer(outs) ==
    /\ hreq.pc = "api.explorer"
    /\ \E out \in outs :
         LET rq == [hreq EXCEPT !.ops = @ \cup {"explorer.transaction"}] IN
         HStep(IF out.t = "throw"
               THEN HCatch(rq, "explorer.transaction", "Error fetching wallet data")
               ELSE LET got == [rq EXCEPT !.txList = out.list,
                                          !.queue = TokenAddresses(out.list)]
                    IN IF got.queue = <<>>
                       THEN Respond(got, 200, ApiBody(got))
                       ELSE [got EXCEPT !.pc = "api.token"])

\* src/api/wallet.js:62-78  a probe that fails or finds nothing is skipped
ApiWalletToken(outs) ==
    /\ hreq.pc = "api.token"
    /\ \E out \in outs :
         LET rq == [hreq EXCEPT !.ops = @ \cup {"rpc.contract"},
                                !.failed = IF out.t = "throw" THEN @ \cup {"rpc.contract"} ELSE @,
                                !.queue = Tail(@),
                                !.tokens = IF out.t = "ok" /\ out.bal > 0
                                           THEN Append(@, [token |-> Head(hreq.queue),
                                                           balance |-> out.bal])
                                           ELSE @]
         IN HStep(IF rq.queue = <<>>
                  THEN Respond(rq, 200, ApiBody(rq))
                  ELSE rq)

\* src/server.js:66-71
ServerWalletStart(addr) ==
    HStart("server/wallet", addr, EthersIsAddress(addr), "srv.getBalance",
           "Invalid wallet address")

\* src/server.js:74-92  the only listed token is the zero address: no probe
ServerWalletBalance(outs) ==
    /\ hreq.pc = "srv.getBalance"
    /\ hreq.kind = "server/wallet"
    /\ \E out \in outs :
         LET rq == [hreq EXCEPT !.ops = @ \cup {"rpc.getBalance"}] IN
         HStep(IF out.t = "ok"
               THEN [rq EXCEPT !.nativeBalance = out.bal, !.pc = "srv.history"]
               ELSE HCatch(rq, "rpc.getBalance", "Error fetching wallet data"))

\* src/server.js:95-111  the history call has its own try/catch
ServerWalletHistory(outs) ==
    /\ hreq.pc = "srv.history"
    /\ \E out \in outs :
         LET rq == [hreq EXCEPT !.ops = @ \cup {"explorer.transactions"},
                                !.failed = IF out.t = "throw"
                                           THEN @ \cup {"explorer.transactions"} ELSE @,
                                !.txList = IF out.t = "ok" THEN out.list ELSE <<>>]
         IN HStep(Respond(rq, 200, [address |-> rq.address,
                                    nativeBalance |-> rq.nativeBalance,
                                    tokens |-> <<>>, txHistory |-> rq.txList]))

\* part_001:229-235
Server2Start(addr) ==
    HStart("server2/wallet", addr, EthersIsAddress(addr), "srv.getBalance",
           "Invalid wallet address")

\* part_001:237-249
Server2Balance(outs) ==
    /\ hreq.pc = "srv.getBalance"
    /\ hreq.kind = "server2/wallet"
    /\ \E out \in outs :
         LET rq == [hreq EXCEPT !.ops = @ \cup {"rpc.getBalance"}] IN
         HStep(IF out.t = "ok"
               THEN Respond(rq, 200, [address |-> rq.address, balance |-> out.bal])
               ELSE HCatch(rq, "rpc.getBalance", "Error fetching wallet data"))

\* part_001:259-263  only a missing address is refused
ExplorerHandlerStart(addr) ==
    HStart("explorer/wallet", addr, Len(addr) > 0, "exp.account", "Missing wallet address")

\* part_001:269-272 and the catch at 312-315
ExplorerHandlerBalance(outs) ==
    /\ hreq.pc = "exp.account"
    /\ \E out \in outs :
         LET rq == [hreq EXCEPT !.ops = @ \cup {"explorer.account"}] IN
         HStep(IF out.t = "ok"
               THEN [rq EXCEPT !.nativeBalance = out.bal, !.pc = "exp.transaction"]
               ELSE HCatch(rq, "explorer.account", "Failed to fetch wallet data"))

\* part_001:275-311
ExplorerHandlerTxs(outs) ==
    /\ hreq.pc = "exp.transaction"
    /\ \E out \in outs :
         LET rq == [hreq EXCEPT !.ops = @ \cup {"explorer.transaction"}] IN
         HStep(IF out.t = "ok"
               THEN LET got == [rq EXCEPT !.txList = out.list] IN
                    Respond(got, 200, [address |-> got.address,
                                       nativeBalance |-> got.nativeBalance,
                                       totalTransactions |-> Len(got.txList),
                                       tokens |-> <<>>,
                                       txHistory |-> SubSeq(got.txList, 1,
                                           IF Len(got.txList) < 10 THEN Len(got.txList) ELSE 10)])
               ELSE HCatch(rq, "explorer.transaction", "Failed to fetch wallet data"))

InitHandlers ==
    /\ now = 0
    /\ provider = "rpc"
    /\ store = {}
    /\ req = [r \in Slots |-> IdleReq]
    /\ arrivals = 0
    /\ hist = [k \in Keys |-> [written |-> Null, purge |-> "none", dirty |-> FALSE,
                                removed |-> FALSE]]
    /\ hreq = HIdle
    /\ harrivals = 0
    /\ probe = <<>>
    /\ verdict = "none"
    /\ edits = 0
    /\ snapshot = Null
    /\ badges = Null

NextHandlers ==
    \/ \E m \in {"GET", "OPTIONS"}, a \in HandlerAddrs : ApiWalletStart(m, a)
    \/ ApiWalletBalance(RpcOutcomes)
    \/ ApiWalletExplorer(HandlerExplorer)
    \/ ApiWalletToken(ProbeOutcomes)
    \/ \E a \in HandlerAddrs : ServerWalletStart(a)
    \/ ServerWalletBalance(RpcOutcomes)
    \/ ServerWalletHistory(HandlerExplorer)
    \/ \E a \in HandlerAddrs : Server2Start(a)
    \/ Server2Balance(RpcOutcomes)
    \/ \E a \in HandlerAddrs : ExplorerHandlerStart(a)
    \/ ExplorerHandlerBalance(RpcOutcomes)
    \/ ExplorerHandlerTxs(HandlerExplorer)

SpecHandlers == InitHandlers /\ [][NextHandlers]_vars

----------------------------------------------------------------------------
(* The leaderboard: part_000:274-301 *)

DigitChars == <<"0", "1", "2", "3", "4", "5", "6", "7", "8", "9">>

\* the text of a non-negative integer, as payload->>'nativeBalance' gives it
RECURSIVE ToText(_)
ToText(n) ==
    IF n < 10 THEN <<DigitChars[n + 1]>>
    ELSE Append(ToText(n \div 10), DigitChars[(n % 10) + 1])

\* position of a character in the collation (digits only)
CharRank(c) == CHOOSE i \in 1..10 : DigitChars[i] = c

\* text comparison a >= b: character by character, a prefix sorts first
RECURSIVE TextGE(_, _)
TextGE(a, b) ==
    IF Len(b) = 0 THEN TRUE
    ELSE IF Len(a) = 0 THEN FALSE
    ELSE IF a[1] = b[1] THEN TextGE(Tail(a), Tail(b))
    ELSE CharRank(a[1]) > CharRank(b[1])

\* part_000:279  .order("payload->>nativeBalance", {ascending: false}): the
\* ->> operator yields text, so the rows are compared as text
TextKeyGE(w, v) == TextGE(ToText(w.payload.nativeBalance), ToText(v.payload.nativeBalance))

\* the rows in descending order of the query's sort key
RECURSIVE OrderDesc(_)
OrderDesc(rows) ==
    IF rows = {} THEN <<>>
    ELSE LET top == CHOOSE w \in rows : \A v \in rows : TextKeyGE(w, v)
         IN <<top>> \o OrderDesc(rows \ {top})

\* part_000:280  .limit(50)
Limit(seq, n) == IF Len(seq) <= n THEN seq ELSE SubSeq(seq, 1, n)

\* part_000:287-294
BoardEntry(row) ==
    [address |-> row.address,
     nativeBalance |-> OrZero(row.payload, "nativeBalance"),
     totalTransactions |-> OrZero(row.payload, "totalTransactions")]

\* part_000:274-300  the whole handler: one awaited query
Leaderboard(r, outs) ==
    /\ FreeSlot(r)
    /\ arrivals' = arrivals + 1
    /\ \E o \in outs :
         LET base == [IdleReq EXCEPT !.kind = "leaderboard", !.ops = {"store.select"},
                                     !.readOutcome = o, !.readAt = now]
             data == Limit(OrderDesc(store), BoardLimit)
         IN req' = [req EXCEPT ![r] =
                CASE o = "reject" -> Catch(base, "store.select")
                  [] o = "error"  -> Respond(base, 200, [leaderboard |-> <<>>])
                  [] o = "ok"     -> Respond(base, 200,
                                        [leaderboard |-> [i \in 1..Len(data) |-> BoardEntry(data[i])]])]
    /\ UNCHANGED <<snapshot, badges, now, provider, store, hist, hreq, harrivals, probe,
                   verdict, edits>>

BoardAddrs == {AddrA, AddrB}
BoardRpc == {[t |-> "ok", bal |-> 9], [t |-> "ok", bal |-> 10000]}

\* wallets are looked up, then the leaderboard is asked for
NextBoard ==
    \/ \E a \in BoardAddrs : arrivals < MaxBoardArrivals /\ OverviewStart(1, a)
    \/ OverviewRead(1, {"ok"})
    \/ FetchRpc(1, BoardRpc)
    \/ FetchTxList(1, ExplorerUp)
    \/ FetchTokenBalance(1)
    \/ UpsertReturn(1, {"ok"})
    \/ arrivals < MaxBoardArrivals /\ Leaderboard(1, StoreOutcomes)

SpecBoard == Init /\ [][NextBoard]_vars

----------------------------------------------------------------------------
(* Requests for two wallets, interleaved with health and leaderboard *)

\* part_000:190-192  answered at once; no store or upstream call
Health(r) ==
    /\ FreeSlot(r)
    /\ arrivals' = arrivals + 1
    /\ req' = [req EXCEPT ![r] =
                Respond([IdleReq EXCEPT !.kind = "health"], 200,
                        [status |-> "ok", now |-> now, chainId |-> 16602])]
    /\ UNCHANGED <<snapshot, badges, now, provider, store, hist, hreq, harrivals, probe,
                   verdict, edits>>

FrameAddrs == {AddrAUp, AddrB}

NextFrame ==
    \/ \E r \in Slots, a \in FrameAddrs : arrivals < MaxFrameArrivals /\ OverviewStart(r, a)
    \/ \E r \in Slots : OverviewRead(r, {"ok"})
    \/ \E r \in Slots, a \in FrameAddrs : arrivals < MaxFrameArrivals /\ TxsStart(r, a)
    \/ \E r \in Slots : TxsRead(r, {"ok"})
    \/ \E r \in Slots, a \in FrameAddrs : arrivals < MaxFrameArrivals /\ TokensStart(r, a)
    \/ \E r \in Slots : TokensRead(r, {"ok"})
    \/ \E r \in Slots : FetchRpc(r, RpcUp)
    \/ \E r \in Slots : FetchTxList(r, ExplorerUp)
    \/ \E r \in Slots : FetchTokenBalance(r)
    \/ \E r \in Slots : UpsertReturn(r, {"ok"})
    \/ \E r \in Slots, a \in FrameAddrs : arrivals < MaxFrameArrivals /\ ClearCacheStart(r, a)
    \/ \E r \in Slots : ClearCacheDelete(r, {"ok", "error"})
    \/ \E r \in Slots : arrivals < MaxFrameArrivals /\ Leaderboard(r, {"ok"})
    \/ \E r \in Slots : arrivals < MaxFrameArrivals /\ Health(r)

SpecFrame == Init /\ [][NextFrame]_vars

----------------------------------------------------------------------------
(* The caching server of part_001: GET /api/wallet/:address *)

\* part_001:162-165
WalletStart(r, addr) ==
    /\ FreeSlot(r)
    /\ arrivals' = arrivals + 1
    /\ LET base == [IdleReq EXCEPT !.kind = "wallet", !.address = addr] IN
       req' = [req EXCEPT ![r] =
              IF ~isValidAddress(addr)
              THEN Respond(base, 400, InvalidAddress)
              ELSE [base EXCEPT !.pc = "getCachedWallet"]]
    /\ UNCHANGED <<snapshot, badges, now, provider, store, hist, hreq, harrivals, probe,
                   verdict, edits>>

\* part_001:167-179  getCachedWallet is `error ? null : data`
WalletRead(r, outs) ==
    /\ req[r].kind = "wallet"
    /\ req[r].pc = "getCachedWallet"
    /\ \E o \in outs :
         LET rq == NoteRead(req[r], o)
             cache == getCachedWallet(rq.address, o)
         IN req' = [req EXCEPT ![r] =
                IF o = "reject" THEN Catch(rq, "store.select")
                ELSE IF cache # Null /\ isFresh(cache)
                     THEN Respond(rq, 200, CachedBody(cache.payload))
                     ELSE EnterFetch(rq)]
    /\ UNCHANGED <<snapshot, badges, now, provider, store, arrivals, hist, hreq, harrivals,
                   probe, verdict, edits>>

\* part_001:149-150  lastUpdated keeps the time the result was created
WalletFinish(result) == [result EXCEPT !.usdValue = result.nativeBalance * 0]

\* part_001:137-150, then the caller up to its upsert: 179-181.  There is no
\* token step.
WalletFetchTxList(r, outs) ==
    /\ req[r].kind = "wallet"
    /\ req[r].pc = "txlist"
    /\ \E out \in outs :
         LET b == TxListTry(req[r].result, out)
             chainData == ChainData(req[r], WalletFinish(b.result))
         IN req' = [req EXCEPT ![r] =
                [req[r] EXCEPT !.ops = @ \cup {"explorer.txlist"}, !.tx = out.t,
                               !.explorerReply = out,
                               !.result = chainData,
                               !.record = UpsertRecord(req[r].address, chainData),
                               !.pc = "upsert"]]
    /\ UNCHANGED <<snapshot, badges, now, provider, store, arrivals, hist, hreq, harrivals,
                   probe, verdict, edits>>

NextWallet ==
    \/ \E a \in RequestAddrs : arrivals < MaxWalletArrivals /\ WalletStart(1, a)
    \/ WalletRead(1, StoreOutcomes)
    \/ FetchRpc(1, RpcOutcomes)
    \/ WalletFetchTxList(1, ExplorerOutcomes)
    \/ UpsertReturn(1, StoreOutcomes)
    \/ Tick

SpecWallet == Init /\ [][NextWallet]_vars

----------------------------------------------------------------------------
(* The explorer returning lists around the cap of 100 *)

\* numbers of transactions the explorer returns
ListLengths == {0, 1, 3, TxCap - 1, TxCap, TxCap + 1, TxCap + 2}

\* the list of n transactions, oldest first; transaction i is the number i
ExplorerLists == {[t |-> "array", result |-> [i \in 1..n |-> i]] : n \in ListLengths}

NextList ==
    \/ \E a \in RequestAddrs : arrivals < MaxListArrivals /\ OverviewStart(1, a)
    \/ OverviewRead(1, {"ok"})
    \/ \E a \in RequestAddrs : arrivals < MaxListArrivals /\ TxsStart(1, a)
    \/ TxsRead(1, {"ok"})
    \/ FetchRpc(1, RpcUp)
    \/ FetchTxList(1, ExplorerLists)
    \/ FetchTokenBalance(1)
    \/ UpsertReturn(1, {"ok"})

SpecList == Init /\ [][NextList]_vars

----------------------------------------------------------------------------
(* Upstreams that never reply *)

\* part_000:154  the explorer never replies to axios.get(txListUrl, ...):
\* the call stays pending
FetchTxListSilent(r) ==
    /\ req[r].pc = "txlist"
    /\ req' = [req EXCEPT ![r] = [req[r] EXCEPT !.ops = @ \cup {"explorer.txlist"},
                                                !.pc = "txlist.pending"]]
    /\ UNCHANGED <<snapshot, badges, now, provider, store, arrivals, hist, hreq, harrivals,
                   probe, verdict, edits>>

\* part_000:154  { timeout: 7000 }: axios rejects the pending call, and
\* .catch(() => null) turns that into no response
FetchTxListTimeout(r) ==
    /\ req[r].pc = "txlist.pending"
    /\ LET b == TxListTry(req[r].result, [t |-> "throw"]) IN
       req' = [req EXCEPT ![r] = [req[r] EXCEPT !.tx = "timeout", !.result = b.result,
                                                !.pc = "tokenbalance"]]
    /\ UNCHANGED <<snapshot, badges, now, provider, store, arrivals, hist, hreq, harrivals,
                   probe, verdict, edits>>

\* src/api/wallet.js:37  the explorer never replies to axios.get(url); the
\* call has no timeout option (axios waits without limit) and stays pending
ApiWalletExplorerSilent ==
    /\ hreq.pc = "api.explorer"
    /\ HStep([hreq EXCEPT !.ops = @ \cup {"explorer.transaction"},
                          !.pc = "api.explorer.pending"])

\* the steps a handler takes once it has been entered
LiveSteps ==
    \/ OverviewRead(1, StoreOutcomes)
    \/ TxsRead(1, StoreOutcomes)
    \/ FetchRpc(1, RpcOutcomes)
    \/ FetchTxList(1, ExplorerOutcomes)
    \/ FetchTxListSilent(1)
    \/ FetchTxListTimeout(1)
    \/ FetchTokenBalance(1)
    \/ UpsertReturn(1, StoreOutcomes)
    \/ ApiWalletBalance(RpcOutcomes)
    \/ ApiWalletExplorer(HandlerExplorer)
    \/ ApiWalletExplorerSilent
    \/ ApiWalletToken(ProbeOutcomes)

\* one server is watched at a time
NextLive ==
    \/ \E a \in {AddrA} : arrivals < MaxLiveArrivals /\ HFree /\ OverviewStart(1, a)
    \/ \E a \in {AddrA} : arrivals < MaxLiveArrivals /\ HFree /\ TxsStart(1, a)
    \/ \E a \in {AddrA} : FreeSlot(1) /\ ApiWalletStart("GET", a)
    \/ LiveSteps

\* Node runs every continuation that is ready
SpecLive == Init /\ [][NextLive]_vars /\ WF_vars(LiveSteps)

----------------------------------------------------------------------------
(* computeAchievements on its own *)

\* values of the three fields the rules read; Absent: the field is missing
Absent == -1
TxCounts == {Absent, 0, 1, 99, 100, 150}
HoldDays == {Absent, 0, 29, 30}
Balances == {Absent, 0, 9999, 10000, 20000}

WithField(p, k, v) == IF v = Absent THEN p ELSE Put(p, k, v)

MkSnapshot(tt, hd, nb) ==
    WithField(WithField(WithField([address |-> AddrA], "totalTransactions", tt),
                        "holdDays", hd),
              "nativeBalance", nb)

InitAch ==
    /\ now = 0
    /\ provider = "rpc"
    /\ store = {}
    /\ req = [r \in Slots |-> IdleReq]
    /\ arrivals = 0
    /\ hist = [k \in Keys |-> [written |-> Null, purge |-> "none", dirty |-> FALSE,
                                removed |-> FALSE]]
    /\ hreq = HIdle
    /\ harrivals = 0
    /\ probe = <<>>
    /\ verdict = "none"
    /\ edits = 0
    /\ snapshot \in {MkSnapshot(tt, hd, nb) : tt \in TxCounts, hd \in HoldDays, nb \in Balances}
    /\ badges = Null

\* a caller applies computeAchievements (part_000:210, 219)
Evaluate ==
    /\ badges = Null
    /\ badges' = computeAchievements(snapshot)
    /\ UNCHANGED <<now, provider, store, req, arrivals, hist, hreq, harrivals, probe, verdict,
                   edits, snapshot>>

NextAch == Evaluate

SpecAch == InitAch /\ [][NextAch]_vars

----------------------------------------------------------------------------
(* Claims about the address validator *)

\* '0x', then exactly HexLen characters, each a hex digit of either case
WellFormed(s) ==
    /\ Len(s) = 2 + HexLen
    /\ s[1] = "0"
    /\ s[2] = "x"
    /\ \A i \in 3..Len(s) :
         \/ s[i] \in Digits
         \/ \E j \in 1..6 : s[i] = LowerAlpha[j] \/ s[i] = UpperAlpha[j]

\* C5: isValidAddress(s) returns true if and only if s is exactly '0x'
\* followed by exactly 40 characters of [0-9a-fA-F], in any mix of case, with
\* nothing before or after; for every other string it returns false.
C5_ValidatorExact ==
    verdict # "none" => ((verdict = "true") <=> WellFormed(probe))

\* a mixed-case address has been accepted
C5_Witness == verdict = "true" /\ probe = AddrMixed

----------------------------------------------------------------------------
(* Claims about computeAchievements *)

\* the value of a field of a snapshot, a missing field counting as 0
FieldOrZero(p, k) == IF k \in DOMAIN p THEN p[k] ELSE 0

BadgeOrder ==
    <<"first_steps", "diamond_hands", "active_trader", "whale_status", "sniper", "gravity_king">>

\* list b is the six badges in order with the earned flags the rules give p
BadgesFor(b, p) ==
    /\ Len(b) = 6
    /\ \A i \in 1..6 : b[i].id = BadgeOrder[i]
    /\ b[1].earned <=> FieldOrZero(p, "totalTransactions") >= 1
    /\ b[2].earned <=> FieldOrZero(p, "holdDays") >= 30
    /\ b[3].earned <=> FieldOrZero(p, "totalTransactions") >= 100
    /\ b[4].earned <=> FieldOrZero(p, "nativeBalance") >= 10000
    /\ ~b[5].earned
    /\ ~b[6].earned

\* C12: computeAchievements returns, for every snapshot, exactly six entries
\* in the order first_steps, diamond_hands, active_trader, whale_status,
\* sniper, gravity_king, with first_steps earned iff totalTransactions >= 1,
\* diamond_hands iff holdDays >= 30, active_trader iff totalTransactions >=
\* 100, whale_status iff nativeBalance >= 10000, sniper and gravity_king
\* never, a missing field counting as 0.
C12_SixBadgesByRule == badges # Null => BadgesFor(badges, snapshot)

\* 150 transactions and a balance of 20000 earn exactly three badges
C12_Witness ==
    /\ badges # Null
    /\ snapshot = MkSnapshot(150, Absent, 20000)
    /\ {badges[i].id : i \in {j \in 1..Len(badges) : badges[j].earned}}
          = {"first_steps", "active_trader", "whale_status"}

----------------------------------------------------------------------------
(* Claims about the caching server *)

Answered(rq) == rq.pc = "done"

\* answered 200 with cached = v
AnsweredCached(rq, v) ==
    /\ Answered(rq)
    /\ rq.resp.status = 200
    /\ "cached" \in DOMAIN rq.resp.body
    /\ rq.resp.body.cached = v

\* the request went to the upstreams
Refreshed(rq) == rq.result # Null

\* the cache read of the request returned a row
RowSeen(rq) == rq.readOutcome = "ok" /\ rq.rowsAtRead # {}

\* seconds between the stored timestamp of that row and the freshness test
AgeSeen(rq) == rq.readAt - (CHOOSE w \in rq.rowsAtRead : TRUE).updated_at

OverviewsAnswered ==
    {r \in Slots : req[r].kind = "overview" /\ Answered(req[r]) /\ req[r].resp.status # 400}

\* C1: the overview handler serves a stored row (cached = true, no refresh)
\* if and only if its read found a row for the address whose stored
\* timestamp is strictly less than 60 seconds old; a row exactly 60 seconds
\* old is stale: the handler refreshes from upstream and responds with
\* cached = false.
C1_FreshIffUnderTTL ==
    \A r \in OverviewsAnswered :
        LET rq == req[r] IN
        /\ (AnsweredCached(rq, TRUE) /\ ~Refreshed(rq))
              <=> (RowSeen(rq) /\ AgeSeen(rq) < 60)
        /\ AnsweredCached(rq, TRUE) => ~Refreshed(rq)
        /\ (RowSeen(rq) /\ AgeSeen(rq) = 60)
              => (Refreshed(rq) /\ AnsweredCached(rq, FALSE))

\* C2: a snapshot S written by upsertCachedWallet(address, S) and read back
\* by the overview endpoint before 60 seconds have elapsed, with no purge and
\* no other write in between and the store healthy, is answered with
\* cached = true and the address, nativeBalance and transactions of S.
C2_RoundTrip ==
    \A r \in OverviewsAnswered :
        LET rq == req[r] IN
        (rq.readOutcome = "ok" /\ rq.expect # Null /\ rq.readAt - rq.expect.at < 60)
           => /\ AnsweredCached(rq, TRUE)
              /\ rq.resp.body.address = rq.expect.payload.address
              /\ rq.resp.body.nativeBalance = rq.expect.payload.nativeBalance
              /\ rq.resp.body.transactions = rq.expect.payload.transactions

\* a snapshot written for 0xaaa.. is read back 30 seconds later through 0xAAA..
C2_Witness ==
    \E r \in OverviewsAnswered :
        LET rq == req[r] IN
        /\ rq.readOutcome = "ok"
        /\ rq.expect # Null
        /\ rq.readAt - rq.expect.at = 30
        /\ rq.address = AddrAUp
        /\ rq.expect.address = AddrA
        /\ AnsweredCached(rq, TRUE)
        /\ Len(rq.resp.body.transactions) > 0

\* C3 as stated: once a clear-cache for a valid address has completed with
\* {ok: true}, the immediately following overview request for that address
\* never responds with cached = true, whatever other requests are in flight.
C3_NeverCachedAfterPurge ==
    \A r \in Slots :
        (req[r].afterPurge /\ Answered(req[r])) => ~AnsweredCached(req[r], TRUE)

\* C3 amended: once a clear-cache for a valid address has completed with
\* {ok: true}, the immediately following overview request for that address
\* responds with cached = true only if an upsert for that address reached
\* the store after the purge's delete and before that request's cache read.
C3_CachedOnlyIfRewritten ==
    \A r \in Slots :
        (req[r].afterPurge /\ AnsweredCached(req[r], TRUE)) => req[r].dirtyAtRead

\* a purge removed a row and the next overview of that address was refreshed
C3_Witness ==
    \E r \in Slots :
        /\ req[r].afterPurge
        /\ ~req[r].dirtyAtRead
        /\ req[r].readOutcome = "ok"
        /\ AnsweredCached(req[r], FALSE)
        /\ hist[toLowerCase(req[r].address)].removed

\* C9: on a miss or stale row, if the store upsert fails, by an error result
\* or by a rejected call, the overview request still responds 200 with the
\* freshly fetched snapshot and cached = false.
C9_WriteFailureSwallowed ==
    \A r \in OverviewsAnswered :
        req[r].writeOutcome \in {"error", "reject"}
           => /\ AnsweredCached(req[r], FALSE)
              /\ req[r].resp.body = Put(req[r].result, "cached", FALSE)

\* C10: an overview request whose cache read ends with a store error gets
\* no row from getCachedWallet and behaves like a cache miss: it fetches
\* from upstream and responds 200 with cached = false.
C10_ReadErrorIsMiss ==
    \A r \in Slots :
        (req[r].kind = "overview" /\ req[r].readOutcome = "error")
           => /\ getCachedWallet(req[r].address, "error") = Null
              /\ Refreshed(req[r])
              /\ Answered(req[r]) => AnsweredCached(req[r], FALSE)

\* C11: clear-cache with a valid address answers {ok: true} only if the
\* store delete succeeded, and then no row exists for the lower-cased
\* address right after the delete; if the delete reports an error the answer
\* is 500 and never {ok: true}; with a missing or invalid address the answer
\* is 400 and the store is not touched.
C11_PurgeContract ==
    \A r \in Slots :
        LET rq == req[r] IN
        (rq.kind = "clear-cache" /\ Answered(rq))
           => /\ (rq.resp.body = [ok |-> TRUE])
                    => (rq.resp.status = 200 /\ rq.deleteOutcome = "ok" /\ rq.rowsLeft = {})
              /\ rq.deleteOutcome = "error"
                    => (rq.resp.status = 500 /\ rq.resp.body # [ok |-> TRUE])
              /\ ~WellFormed(rq.address)
                    => (rq.resp.status = 400 /\ rq.ops = {} /\ rq.deleteOutcome = "none")

\* a purge sent with upper-case hex digits removed the stored row
C11_Witness ==
    \E r \in Slots :
        /\ req[r].kind = "clear-cache"
        /\ req[r].address = AddrAUp
        /\ req[r].resp = [status |-> 200, body |-> [ok |-> TRUE]]
        /\ hist[toLowerCase(req[r].address)].removed
        /\ store = {}

\* C13: every overview response that carries a snapshot, served from cache
\* or freshly fetched, and whichever endpoint wrote the stored row, has an
\* achievements list with all six catalog entries, equal to
\* computeAchievements of that response's own totalTransactions,
\* nativeBalance and holdDays.
C13_BadgesMatchResponse ==
    \A r \in OverviewsAnswered :
        LET body == req[r].resp.body IN
        req[r].resp.status = 200
           => /\ "achievements" \in DOMAIN body
              /\ BadgesFor(body.achievements, body)
              /\ body.achievements = computeAchievements(body)

\* an overview served a row that a txs request had written without badges
C13_Witness ==
    \E r \in OverviewsAnswered :
        /\ AnsweredCached(req[r], TRUE)
        /\ req[r].expect # Null
        /\ "achievements" \notin DOMAIN req[r].expect.payload
        /\ req[r].resp.body.achievements[1].earned
        /\ req[r].resp.body.achievements[4].earned

\* C14: the leaderboard response lists at most 50 entries and they are in
\* descending numeric order of nativeBalance: every entry's nativeBalance is
\* >= that of the entry after it, whatever rows are stored.
C14_BoardDescending ==
    \A r \in Slots :
        (req[r].kind = "leaderboard" /\ Answered(req[r]) /\ req[r].resp.status = 200)
           => LET e == req[r].resp.body.leaderboard IN
              /\ Len(e) <= 50
              /\ \A i \in 1..(Len(e) - 1) : e[i].nativeBalance >= e[i + 1].nativeBalance

\* C15: the key of every stored row is a lower-cased address and every
\* read, write and purge lower-cases the request's address first, so
\* requests whose addresses differ only in hex-digit case read, overwrite
\* and delete the same single row.
C15_KeysLowerCased ==
    /\ \A w \in store : w.address = toLowerCase(w.address)
    /\ \A w, v \in store : toLowerCase(w.address) = toLowerCase(v.address) => w = v
    /\ \A r \in Slots :
         LET rq == req[r] IN
         /\ rq.record # Null => rq.record.address = toLowerCase(rq.address)
         /\ (rq.kind = "overview" /\ Answered(rq) /\ RowSeen(rq) /\ AgeSeen(rq) < 60)
               => AnsweredCached(rq, TRUE)
         /\ (rq.kind \in {"txs", "tokens"} /\ Answered(rq) /\ RowSeen(rq))
               => (rq.resp.status = 200 /\ ~Refreshed(rq))
         /\ rq.deleteOutcome = "ok" => rq.rowsLeft = {}

\* a row written through 0xAAA.. is the one row, keyed 0xaaa.., and a
\* request for 0xaaa.. was served from it
C15_Witness ==
    \E r \in Slots :
        /\ req[r].address = AddrA
        /\ AnsweredCached(req[r], TRUE)
        /\ req[r].expect # Null
        /\ req[r].expect.address = AddrAUp
        /\ Cardinality(store) = 1
        /\ \A w \in store : w.address = AddrA

\* C16: under any interleaving of concurrent refreshes of one address the
\* store holds at most one row for the lower-cased address, and that row is
\* exactly the record of the upsert that reached the store last (since the
\* last purge): no fields of an earlier snapshot survive.
C16_LastWriterWins ==
    \A k \in Keys :
        /\ Cardinality(RowsOf(k)) <= 1
        /\ hist[k].written # Null
              => RowsOf(k) = {[address |-> k,
                               payload |-> hist[k].written.payload,
                               updated_at |-> hist[k].written.at]}

\* two refreshes that both missed have both written; the later one stays
C16_Witness ==
    /\ \A r \in Slots :
         /\ req[r].kind = "overview"
         /\ Answered(req[r])
         /\ req[r].readOutcome = "ok"
         /\ req[r].rowsAtRead = {}
         /\ req[r].writeOutcome = "ok"
    /\ req[1].address # req[2].address
    /\ \E w \in store : w.payload.address = req[1].address
    /\ Cardinality(store) = 1

\* C18: whenever an overview response carries cached = true, the
\* lastUpdated of the returned snapshot is strictly less than 60 seconds
\* before the time the request was handled.
C18_FreshByLastUpdated ==
    \A r \in Slots :
        (req[r].kind \in {"overview", "wallet"} /\ AnsweredCached(req[r], TRUE))
           => req[r].readAt - req[r].resp.body.lastUpdated < 60

\* C19: a stored row whose age has reached 60 seconds is refreshed from
\* upstream before any of its data is served: no overview, txs or tokens
\* request is answered from a stored row that is 60 or more seconds old.
C19_StaleNeverServed ==
    \A r \in Slots :
        LET rq == req[r] IN
        (/\ rq.kind \in {"overview", "txs", "tokens"}
         /\ Answered(rq)
         /\ rq.resp.status = 200
         /\ RowSeen(rq)
         /\ AgeSeen(rq) >= 60)
           => Refreshed(rq)

\* C20: the address field of every snapshot, in every stored payload and in
\* every overview response, is the lower-cased form of the account
\* identifier, whatever the case of the hex digits in the request.
C20_SnapshotAddressLowerCased ==
    /\ \A w \in store : w.payload.address = toLowerCase(w.payload.address)
    /\ \A r \in OverviewsAnswered :
         req[r].resp.status = 200
            => req[r].resp.body.address = toLowerCase(req[r].address)

\* C21: once a row exists for an address it disappears only in the step in
\* which a clear-cache request for that address has its delete succeed;
\* every other step, refreshes included, leaves a row for that address.
C21_RowOnlyRemovedByPurge ==
    [][\A k \in Keys :
          ({w \in store : w.address = k} # {} /\ {w \in store' : w.address = k} = {})
             => \E r \in Slots :
                   /\ req[r].kind = "clear-cache"
                   /\ req[r].pc = "delete"
                   /\ toLowerCase(req[r].address) = k
                   /\ req'[r].deleteOutcome = "ok"]_vars

\* a stale row has been replaced by a refresh and a row is still there
C21_Witness ==
    \E r \in OverviewsAnswered :
        /\ RowSeen(req[r])
        /\ AgeSeen(req[r]) >= 60
        /\ req[r].writeOutcome = "ok"
        /\ RowsOf(toLowerCase(req[r].address)) = {req[r].record}
        /\ req[r].record \notin req[r].rowsAtRead

C24_NoStoredAchievements ==
    \A w \in store : "achievements" \notin DOMAIN w.payload

\* C25: a step of a request changes at most the store row keyed by the
\* request's own lower-cased address: the rows of every other address are
\* the same before and after, and a step of a health or leaderboard request
\* leaves the whole store unchanged.
C25_OnlyOwnRowChanges ==
    [][\A r \in Slots :
          req'[r] # req[r]
             => /\ {w \in store' : w.address # toLowerCase(req'[r].address)}
                      = {w \in store : w.address # toLowerCase(req'[r].address)}
                /\ req'[r].kind \in {"health", "leaderboard"}
                      => store' = store]_vars

\* a purge of one wallet succeeded while the other wallet's row stayed, and
\* a health or leaderboard request was answered next to it
C25_Witness ==
    \E r, q \in Slots :
        /\ req[r].kind = "clear-cache"
        /\ req[r].deleteOutcome = "ok"
        /\ req[r].address = AddrAUp
        /\ req[r].rowsLeft = {}
        /\ RowsOf(AddrA) = {}
        /\ RowsOf(AddrB) # {}
        /\ req[q].kind \in {"health", "leaderboard"}
        /\ req[q].pc = "done"

----------------------------------------------------------------------------
(* Claims about fetchOnChainData *)

\* fetchOnChainData has returned to its caller
Returned(rq) == rq.record # Null

\* C7: if the RPC provider is unconfigured or provider.getBalance throws,
\* the snapshot has nativeBalance = 0, the transaction sub-fetch is still
\* attempted and fetchOnChainData returns normally.
C7_BalanceFailureIsZero ==
    \A r \in Slots :
        LET rq == req[r] IN
        rq.rpc \in {"unconfigured", "throw"}
           => /\ rq.threw # "fetchOnChainData"
              /\ rq.result.nativeBalance = 0
              /\ rq.pc # "txlist" => "explorer.txlist" \in rq.ops

\* getBalance threw, the transactions were fetched and the snapshot returned
C7_Witness ==
    \E r \in Slots :
        /\ req[r].rpc = "throw"
        /\ Returned(req[r])
        /\ req[r].result.nativeBalance = 0
        /\ req[r].result.totalTransactions = 3

\* C8: if the explorer call throws, times out or returns a body whose result
\* is not an array, the snapshot has transactions = [] and
\* totalTransactions = 0, keeps the nativeBalance of the RPC sub-fetch, and
\* fetchOnChainData returns normally.
C8_ExplorerFailureIsEmpty ==
    \A r \in Slots :
        LET rq == req[r] IN
        rq.tx \in {"throw", "nonarray"}
           => /\ rq.threw # "fetchOnChainData"
              /\ rq.result.transactions = <<>>
              /\ rq.result.totalTransactions = 0
              /\ rq.result.nativeBalance = rq.rpcBal

\* the explorer answered without an array after the RPC node gave a balance
C8_Witness ==
    \E r \in Slots :
        /\ req[r].tx = "nonarray"
        /\ req[r].rpc = "ok"
        /\ Returned(req[r])
        /\ req[r].result.nativeBalance = 10000

\* C22: when the explorer returns an array R of n transactions, oldest
\* first, the snapshot has transactions = the last min(n, 100) elements of R
\* in reversed order (transactions[1] is R[n]) and totalTransactions = n; so
\* in every snapshot the list has at most 100 elements and at most
\* totalTransactions.
C22_LastHundredReversed ==
    /\ \A r \in Slots :
         LET rq == req[r] IN
         /\ (rq.explorerReply # Null /\ rq.explorerReply.t = "array")
               => LET R == rq.explorerReply.result
                      n == Len(R)
                      m == IF n < 100 THEN n ELSE 100
                      T == rq.result.transactions
                  IN /\ Len(T) = m
                     /\ \A i \in 1..m : T[i] = R[n + 1 - i]
                     /\ rq.result.totalTransactions = n
         /\ rq.result # Null
               => /\ Len(rq.result.transactions) <= 100
                  /\ Len(rq.result.transactions) <= rq.result.totalTransactions
    /\ \A w \in store :
         /\ Len(w.payload.transactions) <= 100
         /\ Len(w.payload.transactions) <= w.payload.totalTransactions

\* the explorer returned 101 transactions and the snapshot was stored
C22_Witness ==
    \E r \in Slots :
        /\ req[r].explorerReply # Null
        /\ Len(req[r].explorerReply.result) = 101
        /\ Answered(req[r])
        /\ \E w \in store :
              /\ Len(w.payload.transactions) = 100
              /\ w.payload.transactions[1] = 101
              /\ w.payload.transactions[100] = 2
              /\ w.payload.totalTransactions = 101

----------------------------------------------------------------------------
(* Claims about termination *)

\* C17: every request with a valid address eventually receives its
\* response, even if the explorer never replies to a call.
C17_EveryRequestAnswered ==
    /\ (req[1].pc \notin {"idle", "done"}) ~> (req[1].pc = "done")
    /\ (hreq.pc \notin {"idle", "done"}) ~> (hreq.pc = "done")

----------------------------------------------------------------------------
(* Claims about every endpoint *)

AllAnswered ==
    {req[r] : r \in {q \in Slots : Answered(req[q]) /\ req[q].kind # "leaderboard"}}
    \cup (IF Answered(hreq) /\ hreq.method = "GET" THEN {hreq} ELSE {})

\* C4: at every endpoint that takes an address, a request whose address is
\* not a well-formed account identifier is answered 400 and makes no store
\* read, write or delete and no upstream call.
C4_InvalidAddressFailsFast ==
    \A rq \in AllAnswered :
        ~WellFormed(rq.address) => (rq.resp.status = 400 /\ rq.ops = {})

\* C6: at every wallet-data endpoint a request with a valid address is
\* answered 200 whatever upstream calls fail; the only non-200 answers are
\* 400 for a malformed address and 500 for a failed clear-cache.
C6_UpstreamFailureNever500 ==
    \A rq \in AllAnswered :
        (WellFormed(rq.address) /\ rq.resp.status # 200)
           => (rq.kind = "clear-cache" /\ rq.resp.status = 500)

====
